---------------------------- MODULE Spec2Model ----------------------------
(***************************************************************************)
(* A model of bvhio's parser module (src/bvhio/parser.py): the line        *)
(* scanner parseLine, the recursive-descent reader readAsBVH / parseJoint, *)
(* the per-frame motion decoder deserializeMotion, the rebase pass         *)
(* convertBvhToJoint and the writer write / writeHierarchy / writeMotion.  *)
(*                                                                         *)
(* Conventions.                                                            *)
(*  - A line of the file is the list of tokens line.strip().split() gives; *)
(*    the blank line and the end of the stream both give the empty list.   *)
(*  - A float is held in tenths (fixed point): 1.0 is 10, 0.5 is 5.        *)
(*  - A vec3 is a triple <<x, y, z>>.                                      *)
(*  - A quaternion is held symbolically, as the list of the axis rotations *)
(*    it composes (the identity is the empty list); a vector that a        *)
(*    quaternion has rotated is held as the pair of the two.               *)
(*  - A Python exception is a record [type, msg, line]; line is the line   *)
(*    number of the debugInfo a SyntaxError carries (0 for the others).    *)
(***************************************************************************)
EXTENDS Integers, Sequences, FiniteSets, TLC

VARIABLES
    file,       \* the lines of the file that are known (see lazy)
    lazy,       \* TRUE: the file is an input, supplied line by line as it is read
    pos,        \* number of lines readline() has returned so far
    eof,        \* TRUE once readline() has returned '' (end of stream)
    tokens,     \* the tokens of the most recent line (local `tokens`)
    pc,         \* position of the running call
    err,        \* the exception that escaped, when pc = "raised"
    line,       \* readAsBVH's local `line`
    stack,      \* the active parseJoint calls, innermost last
    bvh,        \* readAsBVH's local `bvh` (the document being built)
    frame,      \* the loop counter of `for _ in range(bvh.FrameCount)`
    data,       \* the frame vector of the most recent deserializeMotion call
    index,      \* the start index of the most recent deserializeMotion call
    ret,        \* the index the most recent deserializeMotion call returned
    visits,     \* which joints that call visited and which positions each read
    cstack,     \* the active convertBvhToJoint calls, innermost last
    joint,      \* the Joint convertBvhToJoint returned last
    rewrites,   \* the child rewrites convertBvhToJoint has done, in order
    doc         \* the document handed to write

vars == <<file, lazy, pos, eof, tokens, pc, err, line, stack, bvh, frame,
          data, index, ret, visits, cstack, joint, rewrites, doc>>

streamVars == <<file, lazy>>
motionVars == <<data, index, ret, visits>>
convVars == <<cstack, joint, rewrites>>

----------------------------------------------------------------------------
(* Bounds of the model. *)

MaxJoints == 3      \* joint headers in a lazily supplied file
MaxLines == 21      \* lines in a lazily supplied file
MaxTree == 3        \* joints in a drawn tree
MaxFrames == 2      \* motion lines read by the lazily supplied parse
MaxChannels == 2    \* channel names on a drawn CHANNELS line / joint
MaxStart == 2       \* start index handed to deserializeMotion
MaxData == 6        \* length of a drawn frame vector

----------------------------------------------------------------------------
(* Numbers: int(), float(), str() of the tokens the model uses. *)

IntTokens == {"0", "1", "2", "3", "4", "-1", "+1"}

\* int(t): the value, for the tokens int() accepts.
pyInt(t) ==
    CASE t = "0" -> 0 [] t = "1" -> 1 [] t = "2" -> 2 [] t = "3" -> 3
      [] t = "4" -> 4 [] t = "-1" -> 0 - 1 [] t = "+1" -> 1

IsInt(t) == t \in IntTokens

FloatTokens == IntTokens \cup {"0.0", "1.0", "2.0", "3.0", "-1.0", "0.5", "-0.0"}

\* float(t), in tenths, for the tokens float() accepts.  A float in tenths
\* holds no sign of zero: float('-0.0') == 0.0 in the code as well.
pyFloat(t) ==
    CASE t = "0.0" -> 0 [] t = "-0.0" -> 0 [] t = "1.0" -> 10 [] t = "2.0" -> 20
      [] t = "-1.0" -> 0 - 10 [] t = "0.5" -> 5 [] t = "3.0" -> 30
      [] OTHER -> 10 * pyInt(t)

IsFloat(t) == t \in FloatTokens

\* str() of a digit.
Digit(d) ==
    CASE d = 0 -> "0" [] d = 1 -> "1" [] d = 2 -> "2" [] d = 3 -> "3" [] d = 4 -> "4"
      [] d = 5 -> "5" [] d = 6 -> "6" [] d = 7 -> "7" [] d = 8 -> "8" [] d = 9 -> "9"

RECURSIVE strNat(_)
\* str(n) of an int n >= 0.
strNat(n) == IF n < 10 THEN Digit(n) ELSE strNat(n \div 10) \o Digit(n % 10)

\* str(n) of an int, as an f-string prints it.
strInt(n) == IF n < 0 THEN "-" \o strNat(0 - n) ELSE strNat(n)

RECURSIVE Pow10(_)
\* 10 ** n, n >= 0.
Pow10(n) == IF n = 0 THEN 1 ELSE 10 * Pow10(n - 1)

\* round(v, percision) of a float in tenths, as [value, negative]: the
\* rounded value in tenths and the sign bit of the result, which round()
\* keeps (round(-0.5, 0) is -0.0).  One decimal is kept by every
\* percision >= 1; percision 0 rounds to units, percision -n to 10 ** n,
\* and a half goes to the even neighbour.
pyRound(v, percision) ==
    IF percision >= 1 THEN [value |-> v, negative |-> v < 0]
    ELSE LET u == 10 * Pow10(0 - percision)
             q == v \div u
             r == v % u
         IN [value |-> IF 2 * r < u THEN u * q
                       ELSE IF 2 * r > u THEN u * (q + 1)
                       ELSE IF q % 2 = 0 THEN u * q ELSE u * (q + 1),
             negative |-> v < 0]

\* str(v) of a float in tenths, as an f-string prints it.
strFloat(v) ==
    (IF v < 0 THEN "-" ELSE "")
    \o strNat((IF v < 0 THEN 0 - v ELSE v) \div 10)
    \o "." \o Digit((IF v < 0 THEN 0 - v ELSE v) % 10)

----------------------------------------------------------------------------
(* Exceptions. *)

NoError == [type |-> "", msg |-> "", line |-> 0]

SyntaxError(msg, lineNumber) ==
    [type |-> "SyntaxError", msg |-> msg, line |-> lineNumber]

IndexError(msg) == [type |-> "IndexError", msg |-> msg, line |-> 0]

\* The result of a helper that returns `value` or raises `error`.
Returns(value) == [raised |-> FALSE, err |-> NoError, value |-> value]
Raises(error, value) == [raised |-> TRUE, err |-> error, value |-> value]

----------------------------------------------------------------------------
(* The document types, as parser.py uses them. *)

vec3(x, y, z) == <<x, y, z>>

\* RootPose(name): a joint of the file-native tree.  EndSite <<>> is None.
RootPose(name) ==
    [Name |-> name, Offset |-> vec3(0, 0, 0), Channels |-> <<>>,
     Children |-> <<>>, EndSite |-> <<>>, Keyframes |-> <<>>]

\* BVH(): the empty container.
BVH == [Root |-> RootPose("Root"), FrameCount |-> 0, FrameTime |-> 0]

Pose(position, rotation) == [Position |-> position, Rotation |-> rotation]

\* tokens is always the list str.split() returned.
IsList(x) == TRUE


----------------------------------------------------------------------------
(* The stream.  Under a lazily supplied file every read may return any    *)
(* line of LineSet or the end of the stream; a given file returns its     *)
(* next line, and '' once it is exhausted.                                 *)

EndOfStream == [eof |-> TRUE, tokens |-> <<>>]

FramesLines == {<<"Frames:", strInt(n)>> : n \in (0 - 1) .. MaxFrames}

LineSet ==
    {<<>>,
     <<"HIERARCHY">>, <<"HIERARCHY", "x">>, <<"BVH">>,
     <<"ROOT", "a">>, <<"ROOT">>, <<"ROOT", "a", "b">>,
     <<"JOINT", "b">>, <<"JOINT">>, <<"JOINT", "b", "c">>,
     <<"{">>, <<"{", "x">>, <<"}">>,
     <<"OFFSET", "0", "1.0", "0">>, <<"OFFSET", "0", "1">>,
     <<"OFFSET", "0", "x", "0">>,
     <<"CHANNELS">>, <<"CHANNELS", "x", "Xposition">>,
     <<"CHANNELS", "1", "Zrotation">>,
     <<"CHANNELS", "2", "Xposition", "Foo">>,
     <<"CHANNELS", "3", "Xposition", "Yposition">>,
     <<"End", "Site">>,
     <<"MOTION">>, <<"MOTION", "x">>,
     <<"Frames:", "x">>, <<"Frames:">>,
     <<"Frame", "Time:", "0.5">>, <<"Frame", "Time:", "0">>,
     <<"Frame", "Time:", "x">>, <<"Frame", "Time:">>,
     <<"1">>, <<"2", "1">>, <<"1", "2", "0.5">>, <<"1", "x">>}
    \cup FramesLines

RECURSIVE CountJoints(_)
\* The joints of a tree.
CountJoints(j) ==
    LET RECURSIVE Sum(_)
        Sum(k) == IF k = 0 THEN 0
                  ELSE CountJoints(j.Children[k]) + Sum(k - 1)
    IN 1 + Sum(Len(j.Children))

RECURSIVE StackJoints(_)
\* The joints the active parseJoint calls have opened so far.
StackJoints(s) ==
    IF s = <<>> THEN 0 ELSE CountJoints(s[Len(s)].joint) + StackJoints(SubSeq(s, 1, Len(s) - 1))

\* The lines a lazily supplied file may hold next: a file of the model has
\* at most MaxJoints joint headers and at most MaxLines lines.
Supplied ==
    {l \in LineSet :
        (Len(l) >= 2 /\ l[1] = "JOINT") => StackJoints(stack) < MaxJoints}

NextRaw ==
    IF lazy
    THEN {[eof |-> FALSE, tokens |-> l] : l \in IF pos < MaxLines THEN Supplied ELSE {}}
         \cup {EndOfStream}
    ELSE IF pos < Len(file) THEN {[eof |-> FALSE, tokens |-> file[pos + 1]]}
    ELSE {EndOfStream}

\* file.readline() returning raw: the stream moves on, `tokens` is rebound.
Consume(raw) ==
    /\ pos' = IF raw.eof THEN pos ELSE pos + 1
    /\ eof' = raw.eof
    /\ tokens' = raw.tokens
    /\ UNCHANGED streamVars

\* parseLine(file, lineNumber) on the line readline() returned.  The
\* debugInfo tuple indexes tokens[0], which does not exist on an empty list.
parseLine(raw, lineNumber) ==
    IF raw.tokens = <<>>
    THEN [raised |-> TRUE, err |-> IndexError("list index out of range"),
          lineNumber |-> lineNumber + 1, tokens |-> raw.tokens]
    ELSE [raised |-> FALSE, err |-> NoError,
          lineNumber |-> lineNumber + 1, tokens |-> raw.tokens]

\* An exception escapes readAsBVH: every local is gone, nothing is returned.
Raise(e) ==
    /\ pc' = "raised"
    /\ err' = e
    /\ line' = 0
    /\ stack' = <<>>
    /\ bvh' = BVH
    /\ frame' = 0
    /\ UNCHANGED <<motionVars, convVars, doc>>

----------------------------------------------------------------------------
(* The deserialize helpers. *)

deserializeJointName(toks, lineNumber) ==
    IF ~IsList(toks) /\ Len(toks) # 2
    THEN Raises(SyntaxError("Joint header must be 2-dimensional tuple", lineNumber), "")
    ELSE IF Len(toks) < 2 THEN Raises(IndexError("list index out of range"), "")
    ELSE Returns(toks[2])

\* deserializeOffset(file, line) on the line readline() returned.
deserializeOffset(raw, ln) ==
    LET r == parseLine(raw, ln)
        toks == r.tokens
        rest == SubSeq(toks, 2, Len(toks))
    IN IF r.raised THEN Raises(r.err, <<>>)
       ELSE IF toks[1] # "OFFSET"
       THEN Raises(SyntaxError("Expected OFFSET definition for joint", r.lineNumber), <<>>)
       ELSE IF ~IsList(toks) \/ Len(rest) # 3
       THEN Raises(SyntaxError("Offset must be a 3-part tuple", r.lineNumber), <<>>)
       ELSE IF \E k \in 1..3 : ~IsFloat(rest[k])
       THEN Raises(SyntaxError("Offset must be numerics only", r.lineNumber), <<>>)
       ELSE Returns(vec3(pyFloat(rest[1]), pyFloat(rest[2]), pyFloat(rest[3])))

\* A count check that rejects only a count above the number of labels.
CountMismatchAbove(channelCount, labels) == channelCount > Len(labels)

\* channelCount != len(tokens[2:])
CountMismatch(channelCount, labels) == channelCount # Len(labels)

\* deserializeChannles(file, line) on the line readline() returned.
deserializeChannles(raw, ln) ==
    LET r == parseLine(raw, ln)
        toks == r.tokens
        labels == SubSeq(toks, 3, Len(toks))
    IN IF r.raised THEN Raises(r.err, <<>>)
       ELSE IF toks[1] # "CHANNELS"
       THEN Raises(SyntaxError("Expected CHANNELS definition for joint", r.lineNumber), <<>>)
       ELSE IF ~IsList(toks) \/ Len(toks) < 2
       THEN Raises(SyntaxError("Channels must be at least a 2-part tuple", r.lineNumber), <<>>)
       ELSE IF ~IsInt(toks[2])
       THEN Raises(SyntaxError("Channel count must be numerical", r.lineNumber), <<>>)
       ELSE IF CountMismatch(pyInt(toks[2]), labels)
       THEN Raises(SyntaxError("Channel count mismatch with labels", r.lineNumber), <<>>)
       ELSE Returns(labels)

deserializeFrameTime(dat, lineNumber) ==
    IF ~IsList(dat) \/ Len(dat) # 1
    THEN Raises(SyntaxError("Frame time must be a 1-dimensional tuple", lineNumber), 0)
    ELSE IF ~IsFloat(dat[1])
    THEN Raises(SyntaxError("Frame time be numerical", lineNumber), 0)
    ELSE Returns(pyFloat(dat[1]))

deserializeFrameCount(dat, lineNumber) ==
    IF ~IsList(dat) \/ Len(dat) # 1
    THEN Raises(SyntaxError("Frame count must be a 1-dimensional tuple", lineNumber), 0)
    ELSE IF ~IsInt(dat[1])
    THEN Raises(SyntaxError("Frame time be numerical", lineNumber), 0)
    ELSE Returns(pyInt(dat[1]))

deserializeKeyframe(dat, lineNumber) ==
    IF \E k \in 1..Len(dat) : ~IsFloat(dat[k])
    THEN Raises(SyntaxError("Keyframe must be numerics only", lineNumber), <<>>)
    ELSE Returns([k \in 1..Len(dat) |-> pyFloat(dat[k])])

----------------------------------------------------------------------------
(* deserializeMotion: one frame vector decoded onto the tree. *)

AxisIndex(axis) == CASE axis = "X" -> 1 [] axis = "Y" -> 2 [] axis = "Z" -> 3

RECURSIVE quatMul(_, _)
\* q1 * q2 of two quaternions: the rotations of q1 followed by those of q2,
\* two adjacent rotations about one axis being one rotation by the sum.
quatMul(q1, q2) ==
    IF q1 = <<>> THEN q2
    ELSE IF q2 = <<>> THEN q1
    ELSE LET a == q1[Len(q1)]
             b == Head(q2)
             front == SubSeq(q1, 1, Len(q1) - 1)
         IN IF a.axis # b.axis THEN q1 \o q2
            ELSE IF a.angle + b.angle = 0 THEN quatMul(front, Tail(q2))
            ELSE front \o <<[axis |-> a.axis, angle |-> a.angle + b.angle]>> \o Tail(q2)

RECURSIVE quatInverse(_)
\* glm.inverse(q)
quatInverse(q) ==
    IF q = <<>> THEN <<>>
    ELSE quatInverse(Tail(q)) \o <<[axis |-> Head(q).axis, angle |-> 0 - Head(q).angle]>>

RECURSIVE toQuatFrom(_, _)
\* Euler.toQuatFrom(glm.radians(rotation), rotOrder, False): the intrinsic
\* composition of one rotation per letter of rotOrder, about that axis by
\* that component of `rotation`; a rotation by 0 is the identity.
toQuatFrom(rotation, rotOrder) ==
    IF rotOrder = <<>> THEN <<>>
    ELSE LET axis == Head(rotOrder)
             angle == rotation[AxisIndex(axis)]
             rest == toQuatFrom(rotation, Tail(rotOrder))
         IN IF angle = 0 THEN rest
            ELSE quatMul(<<[axis |-> axis, angle |-> angle]>>, rest)

PositionChannels == {"Xposition", "Yposition", "Zposition"}
RotationChannels == {"Xrotation", "Yrotation", "Zrotation"}

\* The first letter of a channel name.
Letter(channel) ==
    CASE channel \in {"Xposition", "Xrotation"} -> "X"
      [] channel \in {"Yposition", "Yrotation"} -> "Y"
      [] channel \in {"Zposition", "Zrotation"} -> "Z"

\* An index that moves on only past a channel whose name is recognised.
AdvanceRecognised(channel, idx) ==
    IF channel \in PositionChannels \cup RotationChannels THEN idx + 1 ELSE idx

\* index += 1, at the end of the loop body.
Advance(channel, idx) == idx + 1

\* One turn of `for channel in joint.Channels`.  st holds the locals
\* position, rotation, rotOrder and index, and `reads`, the positions of
\* `data` read so far; data[index] past the end raises IndexError.
channelStep(st, channel, dat) ==
    IF st.raised THEN st
    ELSE IF channel \in PositionChannels \cup RotationChannels /\ st.index >= Len(dat)
    THEN [st EXCEPT !.raised = TRUE]
    ELSE LET v == dat[st.index + 1]
             a == AxisIndex(Letter(channel))
             read == IF channel \in PositionChannels
                     THEN [st EXCEPT !.position[a] = v,
                                     !.reads = Append(@, st.index)]
                     ELSE IF channel \in RotationChannels
                     THEN [st EXCEPT !.rotation[a] = v,
                                     !.rotOrder = Append(@, Letter(channel)),
                                     !.reads = Append(@, st.index)]
                     ELSE st
         IN [read EXCEPT !.index = Advance(channel, st.index)]

RECURSIVE channelLoop(_, _, _)
channelLoop(st, channels, dat) ==
    IF channels = <<>> THEN st
    ELSE channelLoop(channelStep(st, Head(channels), dat), Tail(channels), dat)

\* A visit as the enclosing call sees it: one level further down, under child k.
Under(k, visit) == [visit EXCEPT !.path = <<k>> \o @]

RECURSIVE deserializeMotion(_, _, _)
RECURSIVE motionChildren(_, _, _, _)

\* deserializeMotion(joint, data, index).  Returns the joint with its new
\* keyframe (and its subtree's), the index after the subtree, and the
\* visits made: per joint its path from `joint` (child numbers), the index
\* it started at and the positions it read.
deserializeMotion(jnt, dat, idx) ==
    LET st0 == [position |-> jnt.Offset, rotation |-> vec3(0, 0, 0),
                rotOrder |-> <<>>, index |-> idx, raised |-> FALSE,
                reads |-> <<>>]
        st == channelLoop(st0, jnt.Channels, dat)
        keyed == [jnt EXCEPT !.Keyframes =
                     Append(@, Pose(st.position, toQuatFrom(st.rotation, st.rotOrder)))]
        own == [path |-> <<>>, start |-> idx, reads |-> st.reads]
    IN IF st.raised
       THEN [raised |-> TRUE, joint |-> jnt, index |-> st.index, visits |-> <<own>>]
       ELSE LET kids == motionChildren(keyed.Children, dat, st.index, 1)
            IN [raised |-> kids.raised,
                joint |-> [keyed EXCEPT !.Children = kids.children],
                index |-> kids.index,
                visits |-> <<own>> \o kids.visits]

\* `for child in joint.Children: index = deserializeMotion(child, data, index)`
\* from child k on.
motionChildren(children, dat, idx, k) ==
    IF k > Len(children)
    THEN [raised |-> FALSE, children |-> children, index |-> idx, visits |-> <<>>]
    ELSE LET r == deserializeMotion(children[k], dat, idx)
             seen == [i \in 1..Len(r.visits) |-> Under(k, r.visits[i])]
         IN IF r.raised
            THEN [raised |-> TRUE, children |-> [children EXCEPT ![k] = r.joint],
                  index |-> r.index, visits |-> seen]
            ELSE LET rest == motionChildren([children EXCEPT ![k] = r.joint],
                                            dat, r.index, k + 1)
                 IN [rest EXCEPT !.visits = seen \o @]

----------------------------------------------------------------------------
(* readAsBVH and parseJoint, one action per line read.                      *)
(* A parseJoint call is a frame [name, line, joint, esLine, esOffset]:     *)
(* its parameter `name`, its local `line`, the joint it builds (bound at   *)
(* the opening bracket), and deserializeEndSite's `line` and `result`      *)
(* while that call runs.                                                   *)

Call(name, ln) ==
    [name |-> name, line |-> ln, joint |-> RootPose(name), esLine |-> 0,
     esOffset |-> <<>>]

Top == stack[Len(stack)]

SetTop(f) == [stack EXCEPT ![Len(stack)] = f]

\* The first line the caller checks: `not tokens[0] == 'HIERARCHY' and len(tokens) == 1`.
BadHeader(toks) == (~(toks[1] = "HIERARCHY")) /\ Len(toks) = 1

\* parseJoint's `line` when readAsBVH calls it: the parameter's default.
RootCallLine(ln) == 0

\* lines 24-26
readHeader ==
    /\ pc = "header"
    /\ \E raw \in NextRaw :
         LET r == parseLine(raw, 0) IN
         /\ Consume(raw)
         /\ IF r.raised THEN Raise(r.err)
            ELSE IF BadHeader(r.tokens)
            THEN Raise(SyntaxError("First line must be only \"HIERARCHY\"", r.lineNumber))
            ELSE /\ pc' = "root"
                 /\ line' = r.lineNumber
                 /\ UNCHANGED <<err, stack, bvh, frame, motionVars, convVars, doc>>

\* lines 29-32, up to the call of parseJoint
readRoot ==
    /\ pc = "root"
    /\ \E raw \in NextRaw :
         LET r == parseLine(raw, line)
             name == deserializeJointName(r.tokens, r.lineNumber)
         IN
         /\ Consume(raw)
         /\ IF r.raised THEN Raise(r.err)
            ELSE IF r.tokens[1] # "ROOT"
            THEN Raise(SyntaxError("First Joint must be defined as \"ROOT\"", r.lineNumber))
            ELSE IF name.raised THEN Raise(name.err)
            ELSE /\ pc' = "open"
                 /\ line' = r.lineNumber
                 /\ stack' = <<Call(name.value, RootCallLine(r.lineNumber))>>
                 /\ UNCHANGED <<err, bvh, frame, motionVars, convVars, doc>>

\* lines 77-82
parseJointOpen ==
    /\ pc = "open"
    /\ \E raw \in NextRaw :
         LET r == parseLine(raw, Top.line) IN
         /\ Consume(raw)
         /\ IF r.raised THEN Raise(r.err)
            ELSE IF r.tokens[1] # "{" \/ Len(r.tokens) > 1
            THEN Raise(SyntaxError("Joint definition must start with an opening bracket",
                                   r.lineNumber))
            ELSE /\ pc' = "offset"
                 /\ stack' = SetTop([Top EXCEPT !.line = r.lineNumber,
                                                !.joint = RootPose(Top.name)])
                 /\ UNCHANGED <<err, line, bvh, frame, motionVars, convVars, doc>>

\* line 83
parseJointOffset ==
    /\ pc = "offset"
    /\ \E raw \in NextRaw :
         LET r == deserializeOffset(raw, Top.line) IN
         /\ Consume(raw)
         /\ IF r.raised THEN Raise(r.err)
            ELSE /\ pc' = "channels"
                 /\ stack' = SetTop([Top EXCEPT !.joint.Offset = r.value])
                 /\ UNCHANGED <<err, line, bvh, frame, motionVars, convVars, doc>>

\* line 84
parseJointChannels ==
    /\ pc = "channels"
    /\ \E raw \in NextRaw :
         LET r == deserializeChannles(raw, Top.line) IN
         /\ Consume(raw)
         /\ IF r.raised THEN Raise(r.err)
            ELSE /\ pc' = "body"
                 /\ stack' = SetTop([Top EXCEPT !.joint.Channels = r.value])
                 /\ UNCHANGED <<err, line, bvh, frame, motionVars, convVars, doc>>

\* The closing bracket: parseJoint returns its joint, to the enclosing
\* parseJoint (line 90) or to readAsBVH (line 32).
ReturnJoint ==
    IF Len(stack) > 1
    THEN LET caller == stack[Len(stack) - 1] IN
         /\ pc' = "body"
         /\ stack' = Append(SubSeq(stack, 1, Len(stack) - 2),
                            [caller EXCEPT !.joint.Children = Append(@, Top.joint)])
         /\ UNCHANGED bvh
    ELSE /\ pc' = "motion"
         /\ stack' = <<>>
         /\ bvh' = [bvh EXCEPT !.Root = Top.joint]

\* lines 88-96, one turn of the loop
parseJointBody ==
    /\ pc = "body"
    /\ \E raw \in NextRaw :
         LET r == parseLine(raw, Top.line)
             name == deserializeJointName(r.tokens, r.lineNumber)
             here == [Top EXCEPT !.line = r.lineNumber]
         IN
         /\ Consume(raw)
         /\ IF r.raised THEN Raise(r.err)
            ELSE IF r.tokens[1] = "JOINT"
            THEN IF name.raised THEN Raise(name.err)
                 ELSE /\ pc' = "open"
                      /\ stack' = Append(SetTop(here), Call(name.value, r.lineNumber))
                      /\ UNCHANGED <<err, line, bvh, frame, motionVars, convVars, doc>>
            ELSE IF r.tokens[1] = "End"
            THEN /\ pc' = "es_open"
                 /\ stack' = SetTop([here EXCEPT !.esLine = r.lineNumber])
                 /\ UNCHANGED <<err, line, bvh, frame, motionVars, convVars, doc>>
            ELSE IF r.tokens[1] = "}"
            THEN /\ ReturnJoint
                 /\ UNCHANGED <<err, line, frame, motionVars, convVars, doc>>
            ELSE Raise(SyntaxError(
                     "Joint definition must end with an child joint, end site or closing bracket",
                     r.lineNumber))

\* lines 132-134
endSiteOpen ==
    /\ pc = "es_open"
    /\ \E raw \in NextRaw :
         LET r == parseLine(raw, Top.esLine) IN
         /\ Consume(raw)
         /\ IF r.raised THEN Raise(r.err)
            ELSE IF r.tokens[1] # "{"
            THEN Raise(SyntaxError("End Site definition must start with an opening bracket",
                                   r.lineNumber))
            ELSE /\ pc' = "es_offset"
                 /\ stack' = SetTop([Top EXCEPT !.esLine = r.lineNumber])
                 /\ UNCHANGED <<err, line, bvh, frame, motionVars, convVars, doc>>

\* line 135
endSiteOffset ==
    /\ pc = "es_offset"
    /\ \E raw \in NextRaw :
         LET r == deserializeOffset(raw, Top.esLine) IN
         /\ Consume(raw)
         /\ IF r.raised THEN Raise(r.err)
            ELSE /\ pc' = "es_close"
                 /\ stack' = SetTop([Top EXCEPT !.esOffset = r.value])
                 /\ UNCHANGED <<err, line, bvh, frame, motionVars, convVars, doc>>

\* lines 136-139, and the assignment of line 92
endSiteClose ==
    /\ pc = "es_close"
    /\ \E raw \in NextRaw :
         LET r == parseLine(raw, Top.esLine) IN
         /\ Consume(raw)
         /\ IF r.raised THEN Raise(r.err)
            ELSE IF r.tokens[1] # "}"
            THEN Raise(SyntaxError("End Site definition must start with an opening bracket",
                                   r.lineNumber))
            ELSE /\ pc' = "body"
                 /\ stack' = SetTop([Top EXCEPT !.joint.EndSite = Top.esOffset,
                                                !.esLine = 0, !.esOffset = <<>>])
                 /\ UNCHANGED <<err, line, bvh, frame, motionVars, convVars, doc>>

\* lines 35-37
readMotion ==
    /\ pc = "motion"
    /\ \E raw \in NextRaw :
         LET r == parseLine(raw, line) IN
         /\ Consume(raw)
         /\ IF r.raised THEN Raise(r.err)
            ELSE IF ~(r.tokens[1] = "MOTION") \/ ~(Len(r.tokens) = 1)
            THEN Raise(SyntaxError("After end of hierarchy must follow \"MOTION\"", r.lineNumber))
            ELSE /\ pc' = "frames"
                 /\ line' = r.lineNumber
                 /\ UNCHANGED <<err, stack, bvh, frame, motionVars, convVars, doc>>

\* lines 40-44
readFrameCount ==
    /\ pc = "frames"
    /\ \E raw \in NextRaw :
         LET r == parseLine(raw, line)
             n == deserializeFrameCount(SubSeq(r.tokens, 2, Len(r.tokens)), r.lineNumber)
         IN
         /\ Consume(raw)
         /\ IF r.raised THEN Raise(r.err)
            ELSE IF ~(r.tokens[1] = "Frames:") \/ ~(Len(r.tokens) = 2)
            THEN Raise(SyntaxError("First line of \"MOTION\" section has to be \"Frames: X\"",
                                   r.lineNumber))
            ELSE IF n.raised THEN Raise(n.err)
            ELSE /\ pc' = "frametime"
                 /\ line' = r.lineNumber
                 /\ bvh' = [bvh EXCEPT !.FrameCount = n.value]
                 /\ UNCHANGED <<err, stack, frame, motionVars, convVars, doc>>

\* lines 47-51
readFrameTime ==
    /\ pc = "frametime"
    /\ \E raw \in NextRaw :
         LET r == parseLine(raw, line)
             t == deserializeFrameTime(SubSeq(r.tokens, 3, Len(r.tokens)), r.lineNumber)
         IN
         /\ Consume(raw)
         /\ IF r.raised THEN Raise(r.err)
            ELSE IF ~(r.tokens[1] = "Frame") \/ ~(Len(r.tokens) = 3)
            THEN Raise(SyntaxError("After frame count must follow \"Frame Time\"", r.lineNumber))
            ELSE IF t.raised THEN Raise(t.err)
            ELSE /\ pc' = "frame"
                 /\ line' = r.lineNumber
                 /\ bvh' = [bvh EXCEPT !.FrameTime = t.value]
                 /\ frame' = 0
                 /\ UNCHANGED <<err, stack, motionVars, convVars, doc>>

\* lines 54-56, one turn of the loop
readFrame ==
    /\ pc = "frame"
    /\ frame < bvh.FrameCount
    /\ \E raw \in NextRaw :
         LET r == parseLine(raw, line)
             k == deserializeKeyframe(r.tokens, r.lineNumber)
             m == deserializeMotion(bvh.Root, k.value, 0)
         IN
         /\ Consume(raw)
         /\ IF r.raised THEN Raise(r.err)
            ELSE IF k.raised THEN Raise(k.err)
            ELSE IF m.raised THEN Raise(IndexError("index out of bounds"))
            ELSE /\ pc' = "frame"
                 /\ line' = r.lineNumber
                 /\ bvh' = [bvh EXCEPT !.Root = m.joint]
                 /\ frame' = frame + 1
                 /\ data' = k.value
                 /\ index' = 0
                 /\ ret' = m.index
                 /\ visits' = m.visits
                 /\ UNCHANGED <<err, stack, convVars, doc>>

\* line 58
readReturn ==
    /\ pc = "frame"
    /\ frame >= bvh.FrameCount
    /\ pc' = "done"
    /\ UNCHANGED <<file, lazy, pos, eof, tokens, err, line, stack, bvh, frame,
                   motionVars, convVars, doc>>

readAsBVH ==
    \/ readHeader
    \/ readRoot
    \/ parseJointOpen
    \/ parseJointOffset
    \/ parseJointChannels
    \/ parseJointBody
    \/ endSiteOpen
    \/ endSiteOffset
    \/ endSiteClose
    \/ readMotion
    \/ readFrameCount
    \/ readFrameTime
    \/ readFrame
    \/ readReturn

----------------------------------------------------------------------------
(* The parse of a file supplied line by line. *)

Idle ==
    /\ err = NoError
    /\ line = 0
    /\ stack = <<>>
    /\ bvh = BVH
    /\ frame = 0
    /\ data = <<>>
    /\ index = 0
    /\ ret = 0
    /\ visits = <<>>
    /\ cstack = <<>>
    /\ joint = RootPose("")
    /\ rewrites = <<>>

Init ==
    /\ file = <<>>
    /\ lazy = TRUE
    /\ pos = 0
    /\ eof = FALSE
    /\ tokens = <<>>
    /\ pc = "header"
    /\ doc = BVH
    /\ Idle

Next == readAsBVH

Spec == Init /\ [][Next]_vars

----------------------------------------------------------------------------
(* What the claims speak of. *)

RECURSIVE TotalChannels(_)
\* The sum of len(Channels) over a tree.
TotalChannels(j) ==
    LET RECURSIVE Sum(_)
        Sum(k) == IF k = 0 THEN 0
                  ELSE TotalChannels(j.Children[k]) + Sum(k - 1)
    IN Len(j.Channels) + Sum(Len(j.Children))

RECURSIVE PreOrder(_)
\* The joints of a tree in depth-first pre-order, each with its path from
\* the root (child numbers).
PreOrder(j) ==
    LET RECURSIVE From(_)
        From(k) ==
            IF k > Len(j.Children) THEN <<>>
            ELSE LET sub == PreOrder(j.Children[k])
                 IN [i \in 1..Len(sub) |-> [sub[i] EXCEPT !.path = <<k>> \o @]]
                    \o From(k + 1)
    IN <<[path |-> <<>>, joint |-> j]>> \o From(1)

ParseErrors == {"SyntaxError", "UnexpectedEndOfInput", "KeyframeArityMismatch"}

RaisedSyntaxError == pc = "raised" /\ err.type = "SyntaxError"

\* C1: a motion line whose token count differs from the tree's total channel
\* count makes the parse fail with a parse error: it is never accepted and
\* never fails with another kind of error.
C1_FrameArityChecked ==
    [][(pc = "frame" /\ frame < bvh.FrameCount /\ tokens' # <<>>
            /\ Len(tokens') # TotalChannels(bvh.Root))
        => (pc' = "raised" /\ err'.type \in ParseErrors)]_vars

\* C2: when a line is needed and the stream is exhausted, the parse fails
\* with UnexpectedEndOfInput (a documented parse error); no other kind of
\* failure escapes.
C2_EndOfInputIsParseError ==
    eof => (pc = "raised" /\ err.type \in ParseErrors)

\* C3: every SyntaxError carries the 1-based number of the offending line,
\* which is the count of lines read from the stream so far.
C3_SyntaxErrorLineIsTrue ==
    RaisedSyntaxError => err.line = pos

\* C4: a first line whose token list is not exactly [HIERARCHY] fails the
\* parse with SyntaxError.
C4_HeaderExact ==
    (pos = 1 /\ tokens # <<>> /\ tokens # <<"HIERARCHY">>) => RaisedSyntaxError

\* C5: a ROOT or JOINT line that has not exactly two tokens is rejected with
\* SyntaxError, and a second line not starting with ROOT is rejected with
\* SyntaxError at line 2.
C5_JointHeaderTwoTokens ==
    /\ (pos >= 2 /\ tokens # <<>> /\ tokens[1] \in {"ROOT", "JOINT"} /\ Len(tokens) # 2)
          => RaisedSyntaxError
    /\ (pos = 2 /\ tokens # <<>> /\ tokens[1] # "ROOT")
          => (RaisedSyntaxError /\ err.line = 2)

\* C6: a returned document has FrameCount >= 0, a frame time > 0, and
\* exactly FrameCount keyframes on every joint.
C6_FrameCountMatchesKeyframes ==
    pc = "done" =>
        /\ bvh.FrameCount >= 0
        /\ bvh.FrameTime > 0
        /\ \A i \in 1..Len(PreOrder(bvh.Root)) :
              Len(PreOrder(bvh.Root)[i].joint.Keyframes) = bvh.FrameCount

----------------------------------------------------------------------------
(* The parse of given files: a two-joint skeleton with one frame, whose    *)
(* root's or whose child's CHANNELS line is drawn from ChannelLineSet.      *)

SeqsUpTo(S, n) == UNION {[1..k -> S] : k \in 0..n}

CountTokens == {"0", "1", "2", "3", "4", "+1", "-1", "x", "0.5"}

ChannelNames == {"Xposition", "Zrotation", "Foo"}

ChannelLineSet ==
    {<<"CHANNELS", n>> \o cs : n \in CountTokens, cs \in SeqsUpTo(ChannelNames, MaxChannels)}
    \cup {<<"CHANNELS">>, <<"OFFSET", "0", "0", "0">>, <<>>}

GivenHead ==
    <<  <<"HIERARCHY">>, <<"ROOT", "a">>, <<"{">>, <<"OFFSET", "0", "1.0", "0">>  >>

GivenMiddle ==
    <<  <<"JOINT", "b">>, <<"{">>, <<"OFFSET", "0", "0", "0.5">>  >>

GivenTail ==
    <<  <<"End", "Site">>, <<"{">>, <<"OFFSET", "0", "0", "0">>, <<"}">>,
        <<"}">>, <<"}">>,
        <<"MOTION">>, <<"Frames:", "1">>, <<"Frame", "Time:", "0.5">>,
        [k \in 1..(2 * MaxChannels) |-> "1"]  >>

GivenFile(rootChannels, childChannels) ==
    GivenHead \o <<rootChannels>> \o GivenMiddle \o <<childChannels>> \o GivenTail

\* The lines of a given file that hold the root's and the child's CHANNELS.
RootChannelsAt == Len(GivenHead) + 1
ChildChannelsAt == RootChannelsAt + Len(GivenMiddle) + 1

GivenFiles ==
    {GivenFile(l, <<"CHANNELS", "1", "Zrotation">>) : l \in ChannelLineSet}
    \cup {GivenFile(<<"CHANNELS", "1", "Zrotation">>, l) : l \in ChannelLineSet}

InitFiles ==
    /\ file \in GivenFiles
    /\ lazy = FALSE
    /\ pos = 0
    /\ eof = FALSE
    /\ tokens = <<>>
    /\ pc = "header"
    /\ doc = BVH
    /\ Idle

SpecFiles == InitFiles /\ [][Next]_vars

Labels(channelsLine) == SubSeq(channelsLine, 3, Len(channelsLine))

\* C8: a CHANNELS n c1..ck line is accepted if and only if n is an integer
\* equal to k, whatever the names are; the names are then the joint's channel
\* list, in file order; otherwise the parse fails with SyntaxError.
C8_ChannelsAcceptedIffCountMatches ==
    /\ (~lazy /\ pos \in {RootChannelsAt, ChildChannelsAt}
            /\ Len(tokens) >= 2 /\ tokens[1] = "CHANNELS")
        => IF IsInt(tokens[2]) /\ pyInt(tokens[2]) = Len(tokens) - 2
           THEN pc = "body" /\ Top.joint.Channels = Labels(tokens)
           ELSE RaisedSyntaxError
    /\ (~lazy /\ pc = "done")
        => /\ bvh.Root.Channels = Labels(file[RootChannelsAt])
           /\ bvh.Root.Children[1].Channels = Labels(file[ChildChannelsAt])

\* C8 witness: a CHANNELS line with an unknown name and a matching count has
\* been accepted, and its names are the joint's channel list.
C8_Witness ==
    /\ ~lazy /\ pos = RootChannelsAt /\ pc = "body"
    /\ tokens = <<"CHANNELS", "2", "Foo", "Xposition">>
    /\ Top.joint.Channels = <<"Foo", "Xposition">>

----------------------------------------------------------------------------
(* deserializeMotion on drawn arguments: a tree of at most MaxTree joints  *)
(* without keyframes, a frame vector and a start index.                    *)

DrawnChannelLists ==
    {<<>>, <<"Zrotation">>, <<"Xposition", "Foo">>, <<"Foo", "Yrotation", "Xposition">>}

RECURSIVE TreesOfSize(_)
RECURSIVE ForestsOfSize(_)

\* The trees of exactly n joints.
TreesOfSize(n) ==
    IF n = 0 THEN {}
    ELSE {[RootPose("j") EXCEPT !.Offset = vec3(0, 10, 0), !.Channels = c, !.Children = f] :
             c \in DrawnChannelLists, f \in ForestsOfSize(n - 1)}

\* The lists of trees of n joints in all.
ForestsOfSize(n) ==
    IF n = 0 THEN {<<>>}
    ELSE UNION {{<<t>> \o f : t \in TreesOfSize(k), f \in ForestsOfSize(n - k)} : k \in 1..n}

DrawnTrees == UNION {TreesOfSize(n) : n \in 1..MaxTree}

\* Frame vectors whose values tell their positions apart.
DrawnData == {[k \in 1..n |-> k] : n \in 0..MaxData}

InitMotion ==
    /\ file = <<>>
    /\ lazy = FALSE
    /\ pos = 0
    /\ eof = FALSE
    /\ tokens = <<>>
    /\ pc = "call"
    /\ err = NoError
    /\ line = 0
    /\ stack = <<>>
    /\ \E t \in DrawnTrees : bvh = [BVH EXCEPT !.Root = t]
    /\ frame = 0
    /\ data \in DrawnData
    /\ index \in 0..MaxStart
    /\ ret = 0
    /\ visits = <<>>
    /\ cstack = <<>>
    /\ joint = RootPose("")
    /\ rewrites = <<>>
    /\ doc = BVH

\* deserializeMotion(bvh.Root, data, index)
callDeserializeMotion ==
    /\ pc = "call"
    /\ LET m == deserializeMotion(bvh.Root, data, index) IN
       /\ bvh' = [bvh EXCEPT !.Root = m.joint]
       /\ visits' = m.visits
       /\ IF m.raised
          THEN pc' = "raised" /\ err' = IndexError("index out of bounds") /\ ret' = ret
          ELSE pc' = "returned" /\ err' = err /\ ret' = m.index
    /\ UNCHANGED <<file, lazy, pos, eof, tokens, line, stack, frame, data, index,
                   convVars, doc>>

SpecMotion == InitMotion /\ [][callDeserializeMotion]_vars

RECURSIVE ChannelsBefore(_, _)
\* The channels of the first i - 1 joints of a pre-order list.
ChannelsBefore(order, i) ==
    IF i <= 1 THEN 0
    ELSE Len(order[i - 1].joint.Channels) + ChannelsBefore(order, i - 1)

Recognised == PositionChannels \cup RotationChannels

RECURSIVE RecognisedAt(_, _)
\* The positions start, start + 1, ... of a channel list that hold a
\* recognised name, in order.
RecognisedAt(channels, start) ==
    IF channels = <<>> THEN <<>>
    ELSE (IF Head(channels) \in Recognised THEN <<start>> ELSE <<>>)
         \o RecognisedAt(Tail(channels), start + 1)

\* The value a position channel of the joint holds in the frame vector: the
\* one at the last entry of that name, or the offset's when there is none.
PositionValue(jnt, start, name, axis) ==
    LET at == {k \in 1..Len(jnt.Channels) : jnt.Channels[k] = name}
    IN IF at = {} THEN jnt.Offset[axis]
       ELSE data[start + (CHOOSE k \in at : \A l \in at : l <= k)]

\* C9: a deserializeMotion call that returns has visited the joints in
\* pre-order, each at its own consecutive len(Channels) positions (one per
\* entry, unknown names included), reading there and nowhere else; it has
\* appended one keyframe to every joint and returns the start index plus
\* the sum of len(Channels) over the tree.
C9_SharedCursor ==
    pc = "returned" =>
        LET order == PreOrder(bvh.Root)
            StartOf(i) == index + ChannelsBefore(order, i)
        IN /\ ret = index + TotalChannels(bvh.Root)
           /\ Len(visits) = Len(order)
           /\ \A i \in 1..Len(order) :
                LET jnt == order[i].joint IN
                /\ visits[i].path = order[i].path
                /\ visits[i].start = StartOf(i)
                /\ visits[i].reads = RecognisedAt(jnt.Channels, StartOf(i))
                /\ Len(jnt.Keyframes) = 1
                /\ jnt.Keyframes[1].Position =
                      vec3(PositionValue(jnt, StartOf(i), "Xposition", 1),
                           PositionValue(jnt, StartOf(i), "Yposition", 2),
                           PositionValue(jnt, StartOf(i), "Zposition", 3))
           /\ \A i, k \in 1..Len(order) :
                i # k => \A a \in 1..Len(visits[i].reads), b \in 1..Len(visits[k].reads) :
                            visits[i].reads[a] # visits[k].reads[b]

\* C9 witness: a call from a start index above 0 has returned from a tree of
\* three joints, two of which read the frame vector and one of which has a
\* channel of an unknown name.
C9_Witness ==
    /\ pc = "returned"
    /\ index > 0
    /\ Len(visits) = 3
    /\ visits[2].reads # <<>> /\ visits[3].reads # <<>>
    /\ \E i \in 1..3 : Len(PreOrder(bvh.Root)[i].joint.Channels) > Len(visits[i].reads)

----------------------------------------------------------------------------
(* convertBvhToJoint, one action per call and per return.                   *)
(* A call is a frame [pose, joint, child, path]: its parameter, the Joint  *)
(* it builds, the number of the child the loop is at, and where the pose   *)
(* sits in the tree (child numbers from the root).                         *)

\* Joint(name, position, rotation)
Joint(name, position, rotation) ==
    [Name |-> name, Position |-> position, Rotation |-> rotation,
     Keyframes |-> <<>>, Children |-> <<>>]

\* pose.getRotation(): the rotation of the pose's first keyframe, the
\* identity when it has none.
getRotation(pose) ==
    IF pose.Keyframes = <<>> THEN <<>> ELSE pose.Keyframes[1].Rotation

\* q * v of a quaternion and a vector.
quatRotate(q, v) == [rot |-> quatMul(q, v.rot), vec |-> v.vec]

\* A vector no quaternion has rotated.
Unrotated(v) == [rot |-> <<>>, vec |-> v]

\* lines 61-62
convertEnter(pose, path) ==
    LET made == Joint(pose.Name, pose.Offset, getRotation(pose))
    IN [pose |-> pose,
        joint |-> [made EXCEPT !.Keyframes =
                      [f \in 1..Len(pose.Keyframes) |->
                          Pose(Unrotated(pose.Keyframes[f].Position),
                               quatMul(pose.Keyframes[f].Rotation, made.Rotation))]],
        child |-> 1,
        path |-> path]

\* frame.Position and frame.Rotation of one keyframe, lines 67-68
RewriteFrame(kf, rotation) ==
    Pose(quatRotate(quatInverse(rotation), kf.Position),
         quatMul(quatInverse(rotation), kf.Rotation))

RECURSIVE RewriteSubtree(_, _)
\* A rewrite that goes on into the child's own children.
RewriteSubtree(child, rotation) ==
    [child EXCEPT
        !.Keyframes = [f \in 1..Len(child.Keyframes) |-> RewriteFrame(child.Keyframes[f], rotation)],
        !.Children = [k \in 1..Len(child.Children) |-> RewriteSubtree(child.Children[k], rotation)]]

\* `for frame in child.Keyframes`, lines 66-68
RewriteChild(child, rotation) ==
    [child EXCEPT
        !.Keyframes = [f \in 1..Len(child.Keyframes) |-> RewriteFrame(child.Keyframes[f], rotation)]]

CTop == cstack[Len(cstack)]

\* read: convertBvhToJoint(readAsBVH(path).Root), line 73
convertCall ==
    /\ pc = "convert"
    /\ pc' = "converting"
    /\ cstack' = <<convertEnter(bvh.Root, <<>>)>>
    /\ UNCHANGED <<file, lazy, pos, eof, tokens, err, line, stack, bvh, frame,
                   motionVars, joint, rewrites, doc>>

\* line 65: the call on the next child
convertChild ==
    /\ pc = "converting"
    /\ CTop.child <= Len(CTop.pose.Children)
    /\ cstack' = Append(cstack, convertEnter(CTop.pose.Children[CTop.child],
                                             Append(CTop.path, CTop.child)))
    /\ UNCHANGED <<file, lazy, pos, eof, tokens, pc, err, line, stack, bvh, frame,
                   motionVars, joint, rewrites, doc>>

\* line 70, and what the caller then does with the returned child (lines
\* 66-69) or, for the outermost call, the return of read
convertReturn ==
    /\ pc = "converting"
    /\ CTop.child > Len(CTop.pose.Children)
    /\ IF Len(cstack) > 1
       THEN LET caller == cstack[Len(cstack) - 1]
                child == RewriteChild(CTop.joint, caller.joint.Rotation)
            IN /\ cstack' = Append(SubSeq(cstack, 1, Len(cstack) - 2),
                                   [caller EXCEPT !.joint.Children = Append(@, child),
                                                  !.child = @ + 1])
               /\ rewrites' = Append(rewrites, [path |-> CTop.path, by |-> caller.path])
               /\ UNCHANGED <<pc, joint>>
       ELSE /\ cstack' = <<>>
            /\ joint' = CTop.joint
            /\ pc' = "converted"
            /\ UNCHANGED rewrites
    /\ UNCHANGED <<file, lazy, pos, eof, tokens, err, line, stack, bvh, frame,
                   motionVars, doc>>

convertBvhToJoint == convertCall \/ convertChild \/ convertReturn

\* The frame vector of frame f: long enough for every drawn tree.
FrameVector(f) == [k \in 1..(3 * (MaxTree + 1)) |-> 10 * f + k]

RECURSIVE Decoded(_, _)
\* The tree after deserializeMotion has decoded frames 1..n onto it.
Decoded(t, n) ==
    IF n = 0 THEN t
    ELSE deserializeMotion(Decoded(t, n - 1), FrameVector(n), 0).joint

InitConvert ==
    /\ file = <<>>
    /\ lazy = FALSE
    /\ pos = 0
    /\ eof = FALSE
    /\ tokens = <<>>
    /\ pc = "convert"
    /\ doc = BVH
    /\ err = NoError
    /\ line = 0
    /\ stack = <<>>
    /\ \E t \in DrawnTrees :
         bvh = [Root |-> Decoded(t, MaxFrames), FrameCount |-> MaxFrames, FrameTime |-> 5]
    /\ frame = MaxFrames
    /\ data = <<>>
    /\ index = 0
    /\ ret = 0
    /\ visits = <<>>
    /\ cstack = <<>>
    /\ joint = RootPose("")
    /\ rewrites = <<>>

SpecConvert == InitConvert /\ [][convertBvhToJoint]_vars

IsProperPrefix(p, q) == Len(p) < Len(q) /\ SubSeq(q, 1, Len(p)) = p

Front(p) == SubSeq(p, 1, Len(p) - 1)

\* Every rewrite so far was of a joint below the root, by the call on its
\* immediate parent, and no joint was rewritten twice.
OncePerJointByParent ==
    /\ \A i \in 1..Len(rewrites) :
          /\ rewrites[i].path # <<>>
          /\ rewrites[i].by = Front(rewrites[i].path)
    /\ \A i, k \in 1..Len(rewrites) : i # k => rewrites[i].path # rewrites[k].path

\* The keyframes of the returned tree: the root's are the decoded ones times
\* the joint's rotation; every other joint's are those, with the inverse of
\* its parent's rotation applied once.
RewrittenOnce ==
    LET before == PreOrder(bvh.Root)
        after == PreOrder(joint)
        ParentOf(i) == CHOOSE k \in 1..Len(after) : after[k].path = Front(after[i].path)
    IN /\ Len(after) = Len(before)
       /\ {rewrites[i].path : i \in 1..Len(rewrites)}
             = {after[i].path : i \in 1..Len(after)} \ {<<>>}
       /\ \A i \in 1..Len(after) :
            LET was == before[i].joint
                now == after[i].joint
                own == [f \in 1..Len(was.Keyframes) |->
                           Pose(Unrotated(was.Keyframes[f].Position),
                                quatMul(was.Keyframes[f].Rotation, now.Rotation))]
            IN /\ after[i].path = before[i].path
               /\ Len(now.Keyframes) = Len(was.Keyframes)
               /\ \A f \in 1..Len(now.Keyframes) :
                    IF after[i].path = <<>>
                    THEN now.Keyframes[f] = own[f]
                    ELSE LET inv == quatInverse(after[ParentOf(i)].joint.Rotation)
                         IN /\ now.Keyframes[f].Rotation = quatMul(inv, own[f].Rotation)
                            /\ now.Keyframes[f].Position = quatRotate(inv, own[f].Position)

\* C10 as claimed: the rewrite is applied once per non-root joint, by its
\* immediate parent, and a joint is rewritten before any of its children is.
C10_ParentBeforeChild ==
    /\ OncePerJointByParent
    /\ \A k \in 1..Len(rewrites) :
          Len(rewrites[k].path) >= 2
             => \E i \in 1..(k - 1) : rewrites[i].path = Front(rewrites[k].path)

\* C10 as amended: the rewrite is applied once per non-root joint, by its
\* immediate parent and by no further ancestor, never to the root, and a
\* joint is rewritten only after every joint below it has been.
C10_ChildBeforeParent ==
    /\ OncePerJointByParent
    /\ \A i, k \in 1..Len(rewrites) :
          IsProperPrefix(rewrites[i].path, rewrites[k].path) => k < i
    /\ pc = "converted" => RewrittenOnce

\* C10 witness: a chain of three joints with rotations has been converted;
\* the grandchild was rewritten first, then the child.
C10_Witness ==
    /\ pc = "converted"
    /\ rewrites = <<[path |-> <<1, 1>>, by |-> <<1>>], [path |-> <<1>>, by |-> <<>>]>>
    /\ joint.Rotation # <<>>
    /\ joint.Children[1].Rotation # <<>>
    /\ joint.Children[1].Children[1].Keyframes[1].Rotation # <<>>

----------------------------------------------------------------------------
(* write.  A line is written as the tokens the reader will split it into;  *)
(* the indentation, which strip() drops, is not held.  The document is     *)
(* [Hierarchy, Frames, FrameTime]; a joint of it has Name, Position (its   *)
(* Bone.Position), Rotation, Channels, Keyframes and Children.             *)

DefaultPercision == 9

RECURSIVE getEuler(_, _)
\* joint.getEuler(rotOrder, extrinsic=False) of a joint whose rotation is q:
\* the angles whose toQuatFrom under rotOrder is q.
getEuler(q, rotOrder) ==
    IF rotOrder = <<>> THEN vec3(0, 0, 0)
    ELSE IF q # <<>> /\ Head(q).axis = Head(rotOrder)
    THEN [getEuler(Tail(q), Tail(rotOrder)) EXCEPT ![AxisIndex(Head(rotOrder))] = Head(q).angle]
    ELSE getEuler(q, Tail(rotOrder))

\* rot[1:] == 'rotation'
EndsRotation(rot) == SubSeq(rot, 2, Len(rot)) = "rotation"

\* rot[0]
FirstChar(rot) == SubSeq(rot, 1, 1)

RECURSIVE RotOrderOf(_)
\* ''.join([rot[0] for rot in joint.Channels if rot[1:] == 'rotation'])
RotOrderOf(channels) ==
    IF channels = <<>> THEN <<>>
    ELSE (IF EndsRotation(Head(channels)) THEN <<FirstChar(Head(channels))>> ELSE <<>>)
         \o RotOrderOf(Tail(channels))

\* f'{round(v, percision)}'
Rounded(v, percision) ==
    LET r == pyRound(v, percision)
    IN IF r.value = 0 /\ r.negative THEN "-0.0" ELSE strFloat(r.value)

RECURSIVE writeHierarchy(_, _, _)
writeHierarchy(jnt, isFirst, percision) ==
    LET offset == jnt.Position
        RECURSIVE From(_)
        From(k) == IF k > Len(jnt.Children) THEN <<>>
                   ELSE writeHierarchy(jnt.Children[k], FALSE, percision) \o From(k + 1)
    IN <<  <<IF isFirst THEN "ROOT" ELSE "JOINT", jnt.Name>>,
           <<"{">>,
           <<"OFFSET", Rounded(offset[1], percision), Rounded(offset[2], percision),
             Rounded(offset[3], percision)>>,
           <<"CHANNELS", strInt(Len(jnt.Channels))>> \o jnt.Channels  >>
       \o (IF Len(jnt.Children) > 0 THEN From(1)
           ELSE <<  <<"End", "Site">>, <<"{">>, <<"OFFSET", "0.0", "0.0", "0.0">>, <<"}">>  >>)
       \o <<  <<"}">>  >>

\* The rotation writeMotion takes for a frame: the joint's own, whatever the frame.
RotationWritten(jnt, f) == jnt.Rotation

RECURSIVE writeMotion(_, _, _)
\* The values writeMotion writes for frame f (f = frame + 1), joint and subtree.
writeMotion(jnt, f, percision) ==
    LET rotOrder == RotOrderOf(jnt.Channels)
        rotation == getEuler(RotationWritten(jnt, f), rotOrder)
        position == jnt.Keyframes[f].Position
        RECURSIVE Own(_)
        Own(channels) ==
            IF channels = <<>> THEN <<>>
            ELSE LET c == Head(channels)
                 IN (IF c \in PositionChannels
                     THEN <<Rounded(position[AxisIndex(Letter(c))], percision)>>
                     ELSE IF c \in RotationChannels
                     THEN <<Rounded(rotation[AxisIndex(Letter(c))], percision)>>
                     ELSE <<>>)
                    \o Own(Tail(channels))
        RECURSIVE From(_)
        From(k) == IF k > Len(jnt.Children) THEN <<>>
                   ELSE writeMotion(jnt.Children[k], f, percision) \o From(k + 1)
    IN Own(jnt.Channels) \o From(1)

\* The file write(path, bvh, percision) leaves.
Written(d, percision) ==
    <<  <<"HIERARCHY">>  >>
    \o writeHierarchy(d.Hierarchy, TRUE, percision)
    \o <<  <<"MOTION">>, <<"Frames:", strInt(d.Frames)>>,
           <<"Frame", "Time:", strFloat(d.FrameTime)>>  >>
    \o [f \in 1..d.Frames |-> writeMotion(d.Hierarchy, f, percision)]

\* The percisions write is called with: the default, units and tens.
Percisions == {DefaultPercision, 0, 0 - 1}

\* write(path, doc, percision), then readAsBVH(path) starts
write ==
    /\ pc = "write"
    /\ \E percision \in Percisions : file' = Written(doc, percision)
    /\ pc' = "header"
    /\ UNCHANGED <<lazy, pos, eof, tokens, err, line, stack, bvh, frame,
                   motionVars, convVars, doc>>

----------------------------------------------------------------------------
(* The round trip: a drawn document is written and the file is parsed.     *)

RoundTripChannelLists ==
    {<<"Zrotation">>, <<"Yposition", "Zrotation", "Xrotation">>, <<"Foo", "Xposition">>}

RECURSIVE RoundTripTrees(_)
RECURSIVE RoundTripForests(_)

RoundTripTrees(n) ==
    IF n = 0 THEN {}
    ELSE {[RootPose("j") EXCEPT !.Offset = vec3(5, 10, 0 - 10), !.Channels = c, !.Children = f] :
             c \in RoundTripChannelLists, f \in RoundTripForests(n - 1)}

RoundTripForests(n) ==
    IF n = 0 THEN {<<>>}
    ELSE UNION {{<<t>> \o f : t \in RoundTripTrees(k), f \in RoundTripForests(n - k)} : k \in 1..n}

\* The frame vector of frame f, of values the number tables hold.
RoundTripVector(f) == [k \in 1..(3 * MaxTree) |-> 10 * (1 + ((f + k) % 3))]

RECURSIVE RoundTripDecoded(_, _)
RoundTripDecoded(t, n) ==
    IF n = 0 THEN t
    ELSE deserializeMotion(RoundTripDecoded(t, n - 1), RoundTripVector(n), 0).joint

RECURSIVE AsJoint(_, _)
\* The joint of a document that holds what a parsed joint holds; its own
\* rotation is that of its keyframe r, the identity when r = 0.
AsJoint(pose, r) ==
    [Name |-> pose.Name, Position |-> pose.Offset,
     Rotation |-> IF r = 0 THEN <<>> ELSE pose.Keyframes[r].Rotation,
     Channels |-> pose.Channels, Keyframes |-> pose.Keyframes,
     Children |-> [k \in 1..Len(pose.Children) |-> AsJoint(pose.Children[k], r)]]

Documents ==
    {[Hierarchy |-> AsJoint(RoundTripDecoded(t, n[1]), n[2]), Frames |-> n[1], FrameTime |-> 5] :
        t \in UNION {RoundTripTrees(m) : m \in 1..MaxTree},
        n \in {<<a, b>> \in (1..MaxFrames) \X (0..MaxFrames) : b <= a}}

InitRoundTrip ==
    /\ file = <<>>
    /\ lazy = FALSE
    /\ pos = 0
    /\ eof = FALSE
    /\ tokens = <<>>
    /\ pc = "write"
    /\ doc \in Documents
    /\ Idle

SpecRoundTrip == InitRoundTrip /\ [][write \/ readAsBVH]_vars

\* The parsed document holds what the written one held: the tree, the names,
\* offsets and channel lists, the frame count and time, and frame by frame
\* every joint's position and rotation.
SameDocument ==
    LET was == PreOrder(doc.Hierarchy)
        now == PreOrder(bvh.Root)
    IN /\ bvh.FrameCount = doc.Frames
       /\ bvh.FrameTime = doc.FrameTime
       /\ Len(now) = Len(was)
       /\ \A i \in 1..Len(was) :
            /\ now[i].path = was[i].path
            /\ now[i].joint.Name = was[i].joint.Name
            /\ now[i].joint.Offset = was[i].joint.Position
            /\ now[i].joint.Channels = was[i].joint.Channels
            /\ now[i].joint.Keyframes = was[i].joint.Keyframes

\* The percision of the write kept every value: the file is the one the
\* default percision writes.
NothingRounded == file = Written(doc, DefaultPercision)

\* C7: writing a document and parsing the file gives the document again, and
\* every written frame line has as many values as the joints have channels.
C7_RoundTrip ==
    /\ (doc # BVH /\ pc \notin {"write", "raised", "done"} /\ NothingRounded)
          => \A f \in 1..doc.Frames :
                Len(file[Len(file) - doc.Frames + f]) = TotalChannels(doc.Hierarchy)
    /\ (doc # BVH /\ pc \in {"raised", "done"} /\ NothingRounded)
          => (pc = "done" /\ SameDocument)

=============================================================================
